---- MODULE Spec2Model ----
(***************************************************************************)
(* Model of src/resistors.rs: the ResistorTree network type (ohms,         *)
(* add_in_series, add_in_parallel, total_resistors, eq, cmp) and the       *)
(* ResistorSearcher best-first search (push_node, explore_node, search)    *)
(* over a PriorityQueue frontier and a TreeSet explored set.               *)
(*                                                                         *)
(* Resistances are f64 in the program; here they are exact rationals       *)
(* <<numerator, denominator>>, so rounding is not modelled.                *)
(***************************************************************************)
EXTENDS Integers, Sequences, FiniteSets, TLC

VARIABLES
    target,      \* ResistorSearcher.target
    available,   \* ResistorSearcher.available (catalogue, a Vec<f64>)
    threshold,   \* ResistorSearcher.threshold
    queue,       \* ResistorSearcher.queue: the binary heap's data vector
    explored,    \* ResistorSearcher.explored: the TreeSet's search tree
    pc,          \* position in search(): "seed", "explore", "done", "panic"; "pure" outside a search
    rt,          \* search()'s local rt, the network popped last (Option)
    pending,     \* networks the running for-loop still has to hand to push_node
    result,      \* search()'s return value (Option), meaningful when pc = "done"
    pops,        \* number of networks expanded so far
    x, y,        \* arguments of a ResistorTree method applied on its own
    out          \* that method's return value (Option)

vars == <<target, available, threshold, queue, explored, pc, rt, pending, result, pops, x, y, out>>

searchVars == <<target, available, threshold, queue, explored, rt, pending, result, pops>>

----------------------------------------------------------------------------
(* Bounds of the model *)

MaxPops == 14        \* networks a search may expand before the model stops it
MaxAvail == 2       \* longest catalogue
MaxLeaves == 3      \* most leaves of a network handed to a method on its own

Values == {1, 2}    \* catalogue values (ohms)

----------------------------------------------------------------------------
(* Option<T> *)

None == <<>>

Some(v) == <<v>>

unwrap(o) == o[1]

----------------------------------------------------------------------------
(* f64 arithmetic, as exact rationals <<n, d>> with d > 0 in lowest terms *)

Abs(n) == IF n < 0 THEN -n ELSE n

RECURSIVE GCD(_, _)
GCD(a, b) == IF b = 0 THEN a ELSE GCD(b, a % b)

Rat(n, d) ==
    LET g == GCD(Abs(n), Abs(d))
        s == IF d < 0 THEN -1 ELSE 1
    IN  <<(s * n) \div g, (s * d) \div g>>

RAdd(a, b) == Rat(a[1] * b[2] + b[1] * a[2], a[2] * b[2])

RSub(a, b) == Rat(a[1] * b[2] - b[1] * a[2], a[2] * b[2])

RInv(a) == Rat(a[2], a[1])

RAbs(a) == <<Abs(a[1]), a[2]>>

RLt(a, b) == a[1] * b[2] < b[1] * a[2]

RZero == <<0, 1>>

----------------------------------------------------------------------------
(* f64 <-> String for whole values: decimal digits, most significant first *)

RECURSIVE to_string(_)
to_string(val) ==
    IF val < 10 THEN <<val>> ELSE Append(to_string(val \div 10), val % 10)

RECURSIVE from_str(_)
from_str(s) ==
    IF Len(s) = 0 THEN 0
    ELSE 10 * from_str(SubSeq(s, 1, Len(s) - 1)) + s[Len(s)]

----------------------------------------------------------------------------
(* enum ResistorTree.  The Option<f64> field of each variant is None in     *)
(* every tree the program constructs, so it is not carried.                *)

Resistor(s) == [tag |-> "Resistor", s |-> s, vec |-> <<>>]

Parallel(v) == [tag |-> "Parallel", s |-> <<>>, vec |-> v]

Series(v) == [tag |-> "Series", s |-> <<>>, vec |-> v]

Min(a, b) == IF a < b THEN a ELSE b

RECURSIVE ohms(_)
\* vec.iter().fold(0.0, |acc, rs| acc + (1.0 / rs.ohms()))
RECURSIVE FoldInv(_, _)
FoldInv(vec, acc) ==
    IF vec = <<>> THEN acc
    ELSE FoldInv(Tail(vec), RAdd(acc, RInv(ohms(Head(vec)))))

\* vec.iter().fold(0.0, |acc, rs| acc + rs.ohms())
RECURSIVE FoldSum(_, _)
FoldSum(vec, acc) ==
    IF vec = <<>> THEN acc
    ELSE FoldSum(Tail(vec), RAdd(acc, ohms(Head(vec))))

ohms(t) ==
    CASE t.tag = "Resistor" -> <<from_str(t.s), 1>>
      [] t.tag = "Parallel" -> RInv(FoldInv(t.vec, RZero))
      [] t.tag = "Series"   -> RInv(FoldSum(t.vec, RZero))

\* add_in_series that never flattens
add_in_series_nesting(self, other) == Series(<<self, other>>)

add_in_series(self, other) ==
    CASE self.tag = "Series" /\ other.tag = "Series" -> Series(self.vec \o other.vec)
      [] self.tag = "Series" /\ other.tag # "Series" -> Series(self.vec \o <<other>>)
      [] self.tag # "Series" /\ other.tag = "Series" -> Series(other.vec \o <<self>>)
      [] OTHER -> Series(<<self, other>>)

add_in_parallel(self, other) ==
    CASE self.tag = "Parallel" /\ other.tag = "Parallel" -> Parallel(self.vec \o other.vec)
      [] self.tag = "Parallel" /\ other.tag # "Parallel" -> Parallel(self.vec \o <<other>>)
      [] self.tag # "Parallel" /\ other.tag = "Parallel" -> Parallel(other.vec \o <<self>>)
      [] OTHER -> Parallel(<<self, other>>)

RECURSIVE total_resistors(_)
RECURSIVE FoldTotal(_, _)
FoldTotal(vec, acc) ==
    IF vec = <<>> THEN acc
    ELSE FoldTotal(Tail(vec), acc + total_resistors(Head(vec)))

total_resistors(t) ==
    IF t.tag = "Resistor" THEN 1 ELSE FoldTotal(t.vec, 0)

RECURSIVE eq(_, _)
eq(self, other) ==
    CASE self.tag = "Resistor" /\ other.tag = "Resistor" -> self.s = other.s
      [] self.tag # "Resistor" /\ self.tag = other.tag ->
            \A i \in 1..Min(Len(self.vec), Len(other.vec)) : eq(self.vec[i], other.vec[i])
      [] OTHER -> FALSE

ne(self, other) == ~eq(self, other)

\* cmp with the leaf counts compared the natural way round
cmp_unreversed(self, other) ==
    LET a == total_resistors(self)
        b == total_resistors(other)
    IN  CASE a = b -> IF eq(self, other) THEN "Equal"
                      ELSE IF RLt(ohms(self), ohms(other)) THEN "Less" ELSE "Greater"
          [] a < b -> "Less"
          [] a > b -> "Greater"

cmp(self, other) ==
    LET a == total_resistors(self)
        b == total_resistors(other)
    IN  CASE a = b -> IF eq(self, other) THEN "Equal"
                      ELSE IF RLt(ohms(self), ohms(other)) THEN "Less" ELSE "Greater"
          [] a < b -> "Greater"
          [] a > b -> "Less"

partial_cmp(self, other) == Some(cmp(self, other))

\* the > operator, PartialOrd's provided gt
gt(self, other) == partial_cmp(self, other) = Some("Greater")

----------------------------------------------------------------------------
(* std::collections::PriorityQueue<ResistorTree>: a binary max-heap held   *)
(* in a vector, ordered by the > of ResistorTree.  Index i of the vector   *)
(* is position i + 1 of the sequence.                                      *)

At(data, i) == data[i + 1]

Put(data, i, v) == [data EXCEPT ![i + 1] = v]

RECURSIVE SiftUpLoop(_, _, _, _)
SiftUpLoop(data, start, pos, new) ==
    IF pos > start /\ gt(new, At(data, (pos - 1) \div 2))
    THEN SiftUpLoop(Put(data, pos, At(data, (pos - 1) \div 2)), start, (pos - 1) \div 2, new)
    ELSE Put(data, pos, new)

siftup(data, start, pos) == SiftUpLoop(data, start, pos, At(data, pos))

RECURSIVE SiftDownLoop(_, _, _, _, _)
SiftDownLoop(data, start, pos, end, new) ==
    LET child == 2 * pos + 1
        right == child + 1
        c     == IF right < end /\ ~gt(At(data, child), At(data, right)) THEN right ELSE child
    IN  IF child < end
        THEN SiftDownLoop(Put(data, pos, At(data, c)), start, c, end, new)
        ELSE siftup(Put(data, pos, new), start, pos)

siftdown_range(data, pos, end) == SiftDownLoop(data, pos, pos, end, At(data, pos))

queue_is_empty(data) == Len(data) = 0

\* push that writes the item over the last stored element
queue_push_in_place(data, item) ==
    IF Len(data) = 0 THEN <<item>>
    ELSE siftup(Put(data, Len(data) - 1, item), 0, Len(data) - 1)

queue_push(data, item) == siftup(Append(data, item), 0, Len(data))

\* [item |-> Option of the greatest element, data |-> the heap without it]
queue_pop(data) ==
    IF Len(data) = 0 THEN [item |-> None, data |-> data]
    ELSE LET last == data[Len(data)]
             rest == SubSeq(data, 1, Len(data) - 1)
         IN  IF Len(rest) = 0 THEN [item |-> Some(last), data |-> rest]
             ELSE [item |-> Some(rest[1]),
                   data |-> siftdown_range(Put(rest, 0, last), 0, Len(rest))]

----------------------------------------------------------------------------
(* std::collections::TreeSet<ResistorTree>: an AA tree searched with cmp.  *)
(* The empty tree is <<>>; a node is <<[key, level, left, right]>>.        *)

Node(k, lv, l, r) == <<[key |-> k, level |-> lv, left |-> l, right |-> r]>>

\* remove a left horizontal link by rotating right
skew(node) ==
    LET n == node[1]
    IN  IF n.left # <<>> /\ n.left[1].level = n.level
        THEN LET save == n.left[1]
             IN  Node(save.key, save.level, save.left,
                      Node(n.key, n.level, save.right, n.right))
        ELSE node

\* remove a double right horizontal link by rotating left and raising the level
split(node) ==
    LET n == node[1]
    IN  IF n.right # <<>> /\ n.right[1].right # <<>> /\ n.right[1].right[1].level = n.level
        THEN LET save == n.right[1]
             IN  Node(save.key, save.level + 1,
                      Node(n.key, n.level, n.left, save.left), save.right)
        ELSE node

RECURSIVE tree_insert(_, _)
tree_insert(node, key) ==
    IF node = <<>> THEN Node(key, 1, <<>>, <<>>)
    ELSE LET n == node[1]
             c == cmp(key, n.key)
         IN  CASE c = "Less" ->
                    split(skew(Node(n.key, n.level, tree_insert(n.left, key), n.right)))
               [] c = "Greater" ->
                    split(skew(Node(n.key, n.level, n.left, tree_insert(n.right, key))))
               [] c = "Equal" -> Node(key, n.level, n.left, n.right)

RECURSIVE tree_find(_, _)
tree_find(node, key) ==
    IF node = <<>> THEN None
    ELSE LET n == node[1]
             c == cmp(key, n.key)
         IN  CASE c = "Less" -> tree_find(n.left, key)
               [] c = "Greater" -> tree_find(n.right, key)
               [] c = "Equal" -> Some(n.key)

explored_contains(tree, key) == tree_find(tree, key) # None

explored_insert(tree, key) == tree_insert(tree, key)

\* the members of the set, in the tree's left-to-right order
RECURSIVE Members(_)
Members(node) ==
    IF node = <<>> THEN <<>>
    ELSE Members(node[1].left) \o <<node[1].key>> \o Members(node[1].right)

----------------------------------------------------------------------------
(* ResistorSearcher *)

\* is_goal with <= for <
is_goal_le(n, tgt, thr) == ~RLt(thr, RAbs(RSub(ohms(n), tgt)))

\* (rt.ohms() - self.target).abs() < self.threshold
is_goal(n, tgt, thr) == RLt(RAbs(RSub(ohms(n), tgt)), thr)

\* Successors with the Resistor arm building nothing
Successors_leaf_barren(n, val) ==
    LET new_r == Resistor(to_string(val))
        v     == n.vec
        grow  == <<add_in_series(n, new_r), add_in_parallel(n, new_r)>>
    IN  CASE n.tag = "Resistor" -> <<>>
          [] n.tag = "Series"   -> grow \o
                [i \in 1..Len(v) |-> Series([j \in 1..Len(v) |->
                        IF i = j THEN v[j] ELSE add_in_parallel(v[j], new_r)])]
          [] n.tag = "Parallel" -> grow \o
                [i \in 1..Len(v) |-> Parallel([j \in 1..Len(v) |->
                        IF i = j THEN v[j] ELSE add_in_series(v[j], new_r)])]

\* Successors with the two ladder arms' combinators exchanged
Successors_ladder_swapped(n, val) ==
    LET new_r == Resistor(to_string(val))
        v     == n.vec
        grow  == <<add_in_series(n, new_r), add_in_parallel(n, new_r)>>
    IN  CASE n.tag = "Resistor" -> grow
          [] n.tag = "Series"   -> grow \o
                [i \in 1..Len(v) |-> Series([j \in 1..Len(v) |->
                        IF i = j THEN v[j] ELSE add_in_series(v[j], new_r)])]
          [] n.tag = "Parallel" -> grow \o
                [i \in 1..Len(v) |-> Parallel([j \in 1..Len(v) |->
                        IF i = j THEN v[j] ELSE add_in_parallel(v[j], new_r)])]

\* Successors whose ladder arms leave out the child they keep
Successors_kept_dropped(n, val) ==
    LET new_r == Resistor(to_string(val))
        v     == n.vec
        Rest(i) == [j \in 1..(Len(v) - 1) |-> IF j < i THEN v[j] ELSE v[j + 1]]
        grow  == <<add_in_series(n, new_r), add_in_parallel(n, new_r)>>
    IN  CASE n.tag = "Resistor" -> grow
          [] n.tag = "Series"   -> grow \o
                [i \in 1..Len(v) |-> Series([j \in 1..(Len(v) - 1) |->
                        add_in_parallel(Rest(i)[j], new_r)])]
          [] n.tag = "Parallel" -> grow \o
                [i \in 1..Len(v) |-> Parallel([j \in 1..(Len(v) - 1) |->
                        add_in_series(Rest(i)[j], new_r)])]

\* Successors whose ladder arms add nothing to the other children
Successors_ladder_idle(n, val) ==
    LET new_r == Resistor(to_string(val))
        v     == n.vec
        grow  == <<add_in_series(n, new_r), add_in_parallel(n, new_r)>>
    IN  CASE n.tag = "Resistor" -> grow
          [] n.tag = "Series"   -> grow \o [i \in 1..Len(v) |-> Series(v)]
          [] n.tag = "Parallel" -> grow \o [i \in 1..Len(v) |-> Parallel(v)]

\* the networks explore_node builds for one catalogue value, in push order
Successors(n, val) ==
    LET new_r == Resistor(to_string(val))
        v     == n.vec
        Shunt(i) == [j \in 1..Len(v) |->
                        IF i = j THEN v[j] ELSE add_in_parallel(v[j], new_r)]
        Chain(i) == [j \in 1..Len(v) |->
                        IF i = j THEN v[j] ELSE add_in_series(v[j], new_r)]
        grow  == <<add_in_series(n, new_r), add_in_parallel(n, new_r)>>
    IN  CASE n.tag = "Resistor" -> grow
          [] n.tag = "Series"   -> grow \o [i \in 1..Len(v) |-> Series(Shunt(i))]
          [] n.tag = "Parallel" -> grow \o [i \in 1..Len(v) |-> Parallel(Chain(i))]

\* every network explore_node hands to push_node, in order
RECURSIVE explore_node(_, _)
explore_node(n, avail) ==
    IF avail = <<>> THEN <<>>
    ELSE Successors(n, Head(avail)) \o explore_node(n, Tail(avail))

\* the networks search() seeds the frontier with, in order
SeedNodes(avail) == [i \in 1..Len(avail) |-> Resistor(to_string(avail[i]))]

\* push_node that leaves the explored set alone (nothing is closed on generation)
push_node_no_insert(n) ==
    IF ~explored_contains(explored, n)
    THEN /\ explored' = explored
         /\ queue' = queue_push(queue, n)
    ELSE UNCHANGED <<explored, queue>>

\* push_node(n): explored and queue afterwards
push_node(n) ==
    IF ~explored_contains(explored, n)
    THEN /\ explored' = explored_insert(explored, n)
         /\ queue' = queue_push(queue, n)
    ELSE UNCHANGED <<explored, queue>>

\* the loop condition of search() as "while true"
LoopCond_always(q) == TRUE

\* the loop condition of search() as "while more than one network is left"
LoopCond_plural(q) == Len(q) > 1

\* while !self.queue.is_empty()
LoopCond(q) == ~queue_is_empty(q)

----------------------------------------------------------------------------
(* Inputs *)

\* the catalogue, target and threshold of the two-resistor series scenario
ScenarioCatalogue == <<100, 220>>

ScenarioTarget == <<320, 1>>

ScenarioThreshold == <<1, 10>>

Catalogues == UNION {[1..n -> Values] : n \in 0..MaxAvail} \cup {ScenarioCatalogue}

Targets == {<<1, 2>>, <<1, 3>>, <<2, 1>>, <<3, 1>>, ScenarioTarget}

Thresholds == {ScenarioThreshold, <<1, 1>>}

\* well-formed networks with exactly n leaves: nodes have at least two
\* children, none of them of the node's own kind
RECURSIVE NetsExact(_)
\* child vectors with n leaves in all, each child with at most m
RECURSIVE ChildSeqs(_, _, _)
ChildSeqs(n, tag, m) ==
    IF n = 0 THEN {<<>>}
    ELSE UNION {{<<c>> \o rest : c \in {t \in NetsExact(k) : t.tag # tag},
                                 rest \in ChildSeqs(n - k, tag, m)} : k \in 1..Min(n, m)}

NetsExact(n) ==
    IF n = 1 THEN {Resistor(to_string(val)) : val \in Values}
    ELSE {Series(cs) : cs \in ChildSeqs(n, "Series", n - 1)}
         \cup {Parallel(cs) : cs \in ChildSeqs(n, "Parallel", n - 1)}

Networks == UNION {NetsExact(n) : n \in 1..MaxLeaves}

----------------------------------------------------------------------------
(* search(): one run per choice of catalogue, target and threshold *)

Init ==
    /\ available \in Catalogues
    /\ target \in Targets
    /\ threshold \in Thresholds
    /\ queue = <<>>
    /\ explored = <<>>
    /\ pc = "seed"
    /\ rt = None
    /\ pending = SeedNodes(available)
    /\ result = None
    /\ pops = 0
    /\ x = None /\ y = None /\ out = None

\* one push_node call of the running for-loop (seeding or explore_node)
PushNode ==
    /\ pc \in {"seed", "explore"}
    /\ pending # <<>>
    /\ push_node(Head(pending))
    /\ pending' = Tail(pending)
    /\ UNCHANGED <<target, available, threshold, pc, rt, result, pops, x, y, out>>

\* loop head with the frontier empty: search() returns None
SearchNone ==
    /\ pc \in {"seed", "explore"}
    /\ pending = <<>>
    /\ ~LoopCond(queue)
    /\ result' = None
    /\ pc' = "done"
    /\ UNCHANGED <<target, available, threshold, queue, explored, rt, pending, pops, x, y, out>>

\* one loop iteration: pop, goal test, then return or start explore_node
SearchPop ==
    /\ pc \in {"seed", "explore"}
    /\ pending = <<>>
    /\ LoopCond(queue)
    /\ LET p == queue_pop(queue)
       IN  IF p.item = None
           THEN \* unwrap() of None
                /\ pc' = "panic"
                /\ UNCHANGED <<queue, rt, result, pending, pops>>
           ELSE /\ queue' = p.data
                /\ rt' = p.item
                /\ IF is_goal(unwrap(p.item), target, threshold)
                   THEN /\ result' = p.item
                        /\ pc' = "done"
                        /\ UNCHANGED <<pending, pops>>
                   ELSE /\ pops < MaxPops
                        /\ pending' = explore_node(unwrap(p.item), available)
                        /\ pc' = "explore"
                        /\ pops' = pops + 1
                        /\ UNCHANGED result
    /\ UNCHANGED <<target, available, threshold, explored, x, y, out>>

Next == PushNode \/ SearchNone \/ SearchPop

Spec == Init /\ [][Next]_vars

\* where search() is: the position, the rest of the running for-loop and
\* the number of expansions so far; every step of Next changes it
ctl == <<pc, pending, pops>>

\* Next as it acts on ctl, without the goal test: at the loop head a pop
\* either returns or starts an expansion.  Every step of Next is a step
\* of Step, and below the bound MaxPops Step can be taken exactly when
\* Next can.
Step ==
    /\ pc \in {"seed", "explore"}
    /\ \/ /\ pending # <<>>
          /\ pending' = Tail(pending)
          /\ UNCHANGED <<pc, pops>>
       \/ /\ pending = <<>>
          /\ ~LoopCond(queue)
          /\ pc' = "done"
          /\ UNCHANGED <<pending, pops>>
       \/ /\ pending = <<>>
          /\ LoopCond(queue)
          /\ pops < MaxPops
          /\ \/ /\ pc' = "done"
                /\ UNCHANGED <<pending, pops>>
             \/ /\ pending' = explore_node(At(queue, 0), available)
                /\ pc' = "explore"
                /\ pops' = pops + 1

\* search() runs on its own thread of control and is never suspended for
\* good: whenever a step of it can be taken, one eventually is
FairSpec == Spec /\ WF_ctl(Step)

----------------------------------------------------------------------------
(* ResistorTree methods applied on their own to a pair of networks *)

PureInit ==
    /\ x \in Networks
    /\ y \in Networks
    /\ out = None
    /\ pc = "pure"
    /\ target = RZero /\ threshold = RZero /\ available = <<>>
    /\ queue = <<>> /\ explored = <<>> /\ rt = None
    /\ pending = <<>> /\ result = None /\ pops = 0

Apply(f, v) ==
    /\ pc = "pure"
    /\ out = None
    /\ out' = Some([f |-> f, v |-> v])
    /\ UNCHANGED <<x, y, pc>>
    /\ UNCHANGED searchVars

ApplyOhms == Apply("ohms", ohms(x))

ApplyTotal == Apply("total_resistors", total_resistors(x))

ApplyEq == Apply("eq", eq(x, y))

ApplyCmp == Apply("cmp", cmp(x, y))

ApplySeries == Apply("add_in_series", add_in_series(x, y))

ApplyParallel == Apply("add_in_parallel", add_in_parallel(x, y))

PureNext == ApplyOhms \/ ApplyTotal \/ ApplyEq \/ ApplyCmp \/ ApplySeries \/ ApplyParallel

PureSpec == PureInit /\ [][PureNext]_vars

----------------------------------------------------------------------------
(* Properties *)

\* the equivalence relation of networks: same variant; leaves with the same
\* label; nodes with as many children, equivalent pairwise in order
RECURSIVE Equivalent(_, _)
Equivalent(a, b) ==
    /\ a.tag = b.tag
    /\ IF a.tag = "Resistor" THEN a.s = b.s
       ELSE /\ Len(a.vec) = Len(b.vec)
            /\ \A i \in 1..Len(a.vec) : Equivalent(a.vec[i], b.vec[i])

AtLoopHead == pc \in {"seed", "explore"} /\ pending = <<>>

Returned == pc = "done"

\* C1: a network returned by search() is within threshold of the target,
\* strictly: |n.ohms() - target| < threshold
C1_GoalCorrect ==
    (Returned /\ result # None) =>
        RLt(RAbs(RSub(ohms(unwrap(result)), target)), threshold)

C1_Witness ==
    /\ Returned /\ result # None
    /\ total_resistors(unwrap(result)) >= 2
    /\ pops >= 1

\* C2: with a non-empty catalogue the frontier is non-empty at every loop
\* head, and search() never returns None
C2_NoneOnlyIfEmpty ==
    available # <<>> =>
        /\ AtLoopHead => queue # <<>>
        /\ Returned => result # None

C2_Witness ==
    /\ available # <<>> /\ AtLoopHead
    /\ pc = "explore" /\ pops >= 3
    /\ queue # <<>>

\* C3: with an empty catalogue search() returns None at once: nothing is
\* popped, goal-tested or expanded, frontier and explored set stay empty
C3_EmptyCatalogue ==
    available = <<>> =>
        /\ queue = <<>> /\ explored = <<>> /\ rt = None /\ pops = 0
        /\ pending = <<>>
        /\ \/ pc = "seed" /\ ENABLED SearchNone
           \/ Returned /\ result = None

C3_Witness == available = <<>> /\ Returned /\ result = None /\ explored = <<>>

\* C4: push_node of a network equivalent to a member of the explored set
\* changes neither the frontier nor the explored set
C4_DedupSound ==
    [][(/\ pc \in {"seed", "explore"} /\ pending # <<>>
        /\ pending' = Tail(pending)
        /\ \E i \in 1..Len(Members(explored)) :
                Equivalent(Members(explored)[i], Head(pending)))
       => (queue' = queue /\ explored' = explored)]_vars

\* C5: cmp is a strict total order: cmp(x, y) = Less iff cmp(y, x) = Greater,
\* Equal both ways or neither, and Less is transitive
C5_StrictTotalOrder ==
    (out # None /\ unwrap(out).f = "cmp") =>
        LET c == unwrap(out).v
        IN  /\ c \in {"Less", "Equal", "Greater"}
            /\ (c = "Less") <=> (cmp(y, x) = "Greater")
            /\ (c = "Greater") <=> (cmp(y, x) = "Less")
            /\ (c = "Equal") <=> (cmp(y, x) = "Equal")
            /\ \A z \in Networks :
                    (c = "Less" /\ cmp(y, z) = "Less") => cmp(x, z) = "Less"

\* C6: cmp(x, y) is Equal exactly when eq(x, y) is true
C6_CmpConsistentWithEq ==
    (out # None /\ unwrap(out).f = "cmp") =>
        ((unwrap(out).v = "Equal") <=> eq(x, y))

\* C7: eq(x, y) is true exactly when x and y are equivalent; nodes with
\* different child counts are never eq
C7_EqIsEquivalence ==
    (out # None /\ unwrap(out).f = "eq") =>
        /\ unwrap(out).v <=> Equivalent(x, y)
        /\ (x.tag # "Resistor" /\ x.tag = y.tag /\ Len(x.vec) # Len(y.vec))
                => ~unwrap(out).v

\* C8: ohms of a Series is the sum of its children's ohms; ohms of a
\* Parallel is the reciprocal of the sum of their reciprocals
C8_ResistanceLaws ==
    (out # None /\ unwrap(out).f = "ohms") =>
        /\ x.tag = "Series" => unwrap(out).v = FoldSum(x.vec, RZero)
        /\ x.tag = "Parallel" => unwrap(out).v = RInv(FoldInv(x.vec, RZero))

\* C9: no network left in the frontier has fewer leaves than the network
\* popped last, and the leaf counts of successive pops never decrease
C9_BestFirstByLeafCount ==
    /\ [](rt # None =>
            \A i \in 1..Len(queue) :
                total_resistors(queue[i]) >= total_resistors(unwrap(rt)))
    /\ [][(rt # None /\ rt' # rt) =>
            total_resistors(unwrap(rt')) >= total_resistors(unwrap(rt))]_vars

C9_Witness ==
    /\ rt # None /\ pops >= 3
    /\ total_resistors(unwrap(rt)) >= 2
    /\ \E i \in 1..Len(queue) :
            total_resistors(queue[i]) = total_resistors(unwrap(rt))
    /\ \E i \in 1..Len(queue) :
            total_resistors(queue[i]) > total_resistors(unwrap(rt))

\* C10: when a network is popped, no frontier network of the same leaf
\* count that is not equivalent to it has a strictly smaller resistance
C10_AscendingResistance ==
    rt # None =>
        \A i \in 1..Len(queue) :
            (/\ total_resistors(queue[i]) = total_resistors(unwrap(rt))
             /\ ~Equivalent(queue[i], unwrap(rt)))
            => ~RLt(ohms(queue[i]), ohms(unwrap(rt)))

\* C11: for non-Series x, y, z, add_in_series(add_in_series(x, y), z) and
\* add_in_series(x, add_in_series(y, z)) are each one Series of exactly 3
\* children, none a Series, and have the same children in the same order
C11_Flattening ==
    (out # None /\ unwrap(out).f = "add_in_series"
        /\ x.tag # "Series" /\ y.tag # "Series") =>
        \A z \in {n \in Networks : n.tag # "Series"} :
            LET l == add_in_series(unwrap(out).v, z)
                r == add_in_series(x, add_in_series(y, z))
                Flat3(t) == /\ t.tag = "Series" /\ Len(t.vec) = 3
                            /\ \A i \in 1..3 : t.vec[i].tag # "Series"
            IN  /\ Flat3(l) /\ Flat3(r)
                /\ l.vec = r.vec
                /\ Equivalent(l, r)

\* the leaf explore_node builds for catalogue entry e
Leaf(e) == Resistor(to_string(available[e]))

\* C12 for a popped network n and the list cands handed to push_node: per
\* catalogue entry, the two append moves and then one ladder move per child
ExpansionRule(n, cands) ==
    LET k   == Len(n.vec)
        per == 2 + k
    IN  /\ Len(cands) = Len(available) * per
        /\ \A e \in 1..Len(available) :
              LET at(m) == cands[(e - 1) * per + m]
              IN  /\ at(1) = add_in_series(n, Leaf(e))
                  /\ at(2) = add_in_parallel(n, Leaf(e))
                  /\ \A i \in 1..k :
                        /\ at(2 + i).tag = n.tag
                        /\ Len(at(2 + i).vec) = k
                        /\ at(2 + i).vec[i] = n.vec[i]
                        /\ \A j \in (1..k) \ {i} :
                              at(2 + i).vec[j] =
                                  IF n.tag = "Series"
                                  THEN add_in_parallel(n.vec[j], Leaf(e))
                                  ELSE add_in_series(n.vec[j], Leaf(e))

\* C12: when a popped network is expanded, the networks submitted to
\* push_node are exactly, per catalogue entry, its series and parallel
\* append and, for a node of k children, one ladder move per child index
\* (2 per entry for a leaf, 2 + k for a node); push_node then takes them
\* one by one in that order
C12_ExpansionRule ==
    /\ [][pops' = pops + 1 => ExpansionRule(unwrap(rt'), pending')]_vars
    /\ [][(pending # <<>> /\ pending' # pending) =>
            (pending' = Tail(pending) /\ rt' = rt)]_vars

C12_Witness ==
    /\ pc = "explore" /\ rt # None
    /\ unwrap(rt).tag = "Series" /\ Len(unwrap(rt).vec) = 3
    /\ Len(pending) = Len(available) * 5
    /\ Len(available) >= 1

\* no single catalogue value meets the goal, but the sum of two of them does
TwoResistorCase ==
    /\ pc # "pure"
    /\ \A e \in 1..Len(available) :
            ~RLt(RAbs(RSub(<<available[e], 1>>, target)), threshold)
    /\ \E a, b \in 1..Len(available) :
            RLt(RAbs(RSub(<<available[a] + available[b], 1>>, target)), threshold)

\* a Series of two catalogue leaves whose values sum to within threshold of
\* the target, and whose ohms() is that sum
IsTwoLeafSeriesAnswer(n) ==
    /\ n.tag = "Series" /\ Len(n.vec) = 2
    /\ n.vec[1].tag = "Resistor" /\ n.vec[2].tag = "Resistor"
    /\ LET sum == <<from_str(n.vec[1].s) + from_str(n.vec[2].s), 1>>
       IN  /\ RLt(RAbs(RSub(sum, target)), threshold)
           /\ ohms(n) = sum

\* C13: in the two-resistor case (catalogue [100, 220], target 320,
\* threshold 0.1 among them) search() returns a two-leaf Series of the two
\* values, with their sum as its resistance, out of the networks built by
\* expanding the seeds: no network of three leaves is ever popped
C13_TwoResistorSeries ==
    TwoResistorCase =>
        /\ rt # None => total_resistors(unwrap(rt)) <= 2
        /\ Returned => (result # None /\ IsTwoLeafSeriesAnswer(unwrap(result)))

\* C14: every frontier network has an equivalent member in the explored
\* set, and the frontier is never larger than the explored set
C14_ClosedOnGeneration ==
    pc # "pure" =>
        LET closed == Members(explored)
        IN  /\ \A i \in 1..Len(queue) :
                  \E j \in 1..Len(closed) : Equivalent(closed[j], queue[i])
            /\ Len(queue) <= Len(closed)

C14_Witness ==
    /\ pc = "explore" /\ pops >= 2
    /\ Len(queue) >= 3
    /\ Len(queue) < Len(Members(explored))

RECURSIVE AtLeastTwoChildren(_)
AtLeastTwoChildren(t) ==
    t.tag = "Resistor" \/
        (Len(t.vec) >= 2 /\ \A i \in 1..Len(t.vec) : AtLeastTwoChildren(t.vec[i]))

Nested(t) == t.tag # "Resistor" /\ \E i \in 1..Len(t.vec) : t.vec[i].tag # "Resistor"

\* C15: every Series and Parallel node, at any depth, of every network in
\* the frontier, in the explored set or returned by search() has at least
\* 2 children
C15_AtLeastTwoChildren ==
    pc # "pure" =>
        LET closed == Members(explored)
        IN  /\ \A i \in 1..Len(queue) : AtLeastTwoChildren(queue[i])
            /\ \A j \in 1..Len(closed) : AtLeastTwoChildren(closed[j])
            /\ (Returned /\ result # None) => AtLeastTwoChildren(unwrap(result))

C15_Witness ==
    /\ Returned /\ result # None /\ Nested(unwrap(result))
    /\ \E i \in 1..Len(queue) : Nested(queue[i])

RECURSIVE Alternating(_)
Alternating(t) ==
    t.tag = "Resistor" \/
        \A i \in 1..Len(t.vec) : t.vec[i].tag # t.tag /\ Alternating(t.vec[i])

\* C17: in every network a search generates (seeds and all successors,
\* ladder moves included) no Series node has a Series as a direct child
\* and no Parallel node has a Parallel as a direct child, at any depth
C17_NoSameKindChild ==
    pc # "pure" =>
        LET closed == Members(explored)
        IN  /\ \A i \in 1..Len(pending) : Alternating(pending[i])
            /\ \A i \in 1..Len(queue) : Alternating(queue[i])
            /\ \A j \in 1..Len(closed) : Alternating(closed[j])
            /\ rt # None => Alternating(unwrap(rt))
            /\ result # None => Alternating(unwrap(result))

C17_Witness ==
    /\ pc = "explore" /\ rt # None /\ Nested(unwrap(rt))
    /\ \E i \in 1..Len(pending) :
          /\ pending[i].tag = unwrap(rt).tag
          /\ Len(pending[i].vec) = Len(unwrap(rt).vec)
          /\ \E j \in 1..Len(pending[i].vec) :
                pending[i].vec[j].tag # "Resistor" /\ Len(pending[i].vec[j].vec) = 3

\* the leaf counts of the successors of n for a catalogue of c values: per
\* value, two append moves and one ladder move per child of n
GrowsByRule(n, cands, c) ==
    LET k == IF n.tag = "Resistor" THEN 0 ELSE Len(n.vec)
        base == total_resistors(n)
    IN  /\ Len(cands) = c * (2 + k)
        /\ \A e \in 1..c :
              LET at(p) == cands[(e - 1) * (2 + k) + p]
              IN  /\ total_resistors(at(1)) = base + 1
                  /\ total_resistors(at(2)) = base + 1
                  /\ \A i \in 1..k : total_resistors(at(2 + i)) = base + k - 1

\* C18: every successor handed to push_node has strictly more leaves than
\* the expanded network: one more for the two append moves, k-1 more for
\* a ladder move on a node of k children; nothing with as few or fewer
\* leaves than the network being expanded is generated
C18_SuccessorsGrow ==
    /\ [][pops' = pops + 1 => GrowsByRule(unwrap(rt'), pending', Len(available))]_vars
    /\ [][(pc' = "explore" /\ rt' # None) =>
            \A i \in 1..Len(pending') :
                total_resistors(pending'[i]) > total_resistors(unwrap(rt'))]_vars

C18_Witness ==
    /\ pc = "explore" /\ rt # None /\ unwrap(rt).tag = "Parallel"
    /\ Len(unwrap(rt).vec) = 3
    /\ \E i \in 1..Len(pending) :
          /\ pending[i].tag = "Parallel"
          /\ total_resistors(pending[i]) = total_resistors(unwrap(rt)) + 2

Count(s, n) == Cardinality({i \in 1..Len(s) : s[i] = n})

\* every network stored in s is stored, unchanged and as often, in t
Keeps(s, t) == \A i \in 1..Len(s) : Count(t, s[i]) >= Count(s, s[i])

\* t is s with one occurrence of n taken out
KeepsBut(s, t, n) ==
    /\ Count(s, n) >= 1
    /\ \A i \in 1..Len(s) :
          Count(t, s[i]) = Count(s, s[i]) - (IF s[i] = n THEN 1 ELSE 0)

\* C16: target, threshold and the catalogue are never modified; expanding
\* a popped network changes neither that network nor any network stored
\* in the frontier or the explored set
C16_Frame ==
    /\ [][target' = target /\ threshold' = threshold /\ available' = available]_vars
    /\ [][\A before \in {Members(explored)}, after \in {Members(explored')} :
              Keeps(before, after)]_vars
    /\ [][(pc \in {"seed", "explore"} /\ pending # <<>>) =>
            (rt' = rt /\ Keeps(queue, queue'))]_vars
    /\ [][(pc \in {"seed", "explore"} /\ pending = <<>> /\ queue' # queue) =>
            (rt' # None /\ KeepsBut(queue, queue', unwrap(rt')))]_vars

C16_Witness ==
    /\ pc = "explore" /\ rt # None /\ Nested(unwrap(rt))
    /\ pending # <<>>
    /\ Len(pending) < Len(explore_node(unwrap(rt), available))
    /\ Len(queue) >= 3

\* the networks of one or two leaves
SmallNets == NetsExact(1) \cup NetsExact(2)

InFrontier(n) == \E i \in 1..Len(queue) : queue[i] = n

\* n is the network the running loop is handing to push_node
Generated(n) == pc \in {"seed", "explore"} /\ pending # <<>> /\ Head(pending) = n

GoalGenerated(n) == Generated(n) /\ is_goal(n, target, threshold)

Popped(n) == rt = Some(n) /\ ~InFrontier(n)

ReturnedSome == Returned /\ result # None

====
